---------------------------- MODULE Spec2Model ----------------------------
(***************************************************************************)
(* ETL pipeline of etl-dashboard (data_pipeline.py) and the read side of   *)
(* its HTTP API (api.py).                                                  *)
(*                                                                         *)
(* Cells of a pandas frame are tagged records, so that a number, a string, *)
(* NaN/NaT (pandas' missing value) and Python's None stay distinct values. *)
(* A DataFrame is DF(rows), rows being a sequence of records.              *)
(***************************************************************************)
EXTENDS Integers, Sequences, FiniteSets, TLC

VARIABLES
    pc,                 \* position of the running function / of main()
    db_url,             \* DATABASE_URL is set (data_pipeline.py:17)
    tasks,              \* the two fetch_data coroutines handed to asyncio.gather
    raw_hpi_content,    \* main(): raw_hpi_content
    raw_salary_content, \* main(): raw_salary_content
    normalized,         \* what the two normalizers returned, before fallback
    cleaned_hpi_df,     \* main(): cleaned_hpi_df
    cleaned_salary_df,  \* main(): cleaned_salary_df
    merged_df,          \* main(): merged_df
    validated_df,       \* main(): validated_df
    logged,             \* what validate_data / load_data_to_db wrote to the log
    db,                 \* the table store: table name -> Missing or DF(rows)
    tx_ddl,             \* the store runs DROP/CREATE/INSERT of to_sql in one transaction
    sql,                \* position inside DataFrame.to_sql(if_exists="replace")
    prev_snapshot,      \* destination table as it was when the run started
    runs,               \* pipeline runs started so far
    cache,              \* redis: key -> cached response or Missing
    response            \* last response of the API

vars == <<pc, db_url, tasks, raw_hpi_content, raw_salary_content, normalized,
          cleaned_hpi_df, cleaned_salary_df, merged_df, validated_df, logged,
          db, tx_ddl, sql, prev_snapshot, runs, cache, response>>

---------------------------------------------------------------------------
(* Values *)

NaN == [t |-> "nan"]
None == [t |-> "none"]
Inf == [t |-> "inf"]
Missing == [t |-> "missing"]
Raised(e) == [t |-> "raised", exc |-> e]
Num(n) == [t |-> "num", n |-> n]
Str(s) == [t |-> "str", s |-> s]
Date(y, m) == [t |-> "date", y |-> y, m |-> m]
DateTime(y, m) == [t |-> "datetime", y |-> y, m |-> m]
Quot(p, s) == [t |-> "quot", p |-> p, s |-> s]
DF(rows) == [t |-> "df", rows |-> rows]

\* pandas isna(): NaN, NaT and None are missing
isna(v) == v.t \in {"nan", "none"}
notna(v) == ~isna(v)

\* df is None or df.empty
IsDF(v) == v.t = "df"
NoneOrEmpty(v) == v = None \/ (IsDF(v) /\ v.rows = << >>)

\* Lexicographic rank of the strings that occur as region names
StrOrder == <<"Camden", "East", "East of England", "London", "Manchester", "North West", "Region">>
StrRank(s) == CHOOSE i \in 1..Len(StrOrder) : StrOrder[i] = s

\* Number of positions of s that satisfy P
Count(s, P(_)) == Cardinality({i \in 1..Len(s) : P(s[i])})

---------------------------------------------------------------------------
(* Price Normalizer: clean_house_price_data *)

required_cols == {"Date", "RegionName", "AveragePrice", "Index"}
granular_candidates == <<"OfficialName", "TownName", "DistrictName">>

\* pd.to_datetime(errors="coerce") on one cell: a date string parses to a
\* Timestamp, anything else (missing, or text that is no date) becomes NaT
\* (one with a time of day when the text has one)
to_datetime(v) ==
    CASE v.t = "datestr" -> Date(v.y, v.m)
      [] v.t = "datetimestr" -> DateTime(v.y, v.m)
      [] OTHER -> NaN

\* next((col for col in granular_candidates if col in raw_df.columns), None)
granular_col(columns) ==
    LET hits == {i \in 1..Len(granular_candidates) : granular_candidates[i] \in columns}
    IN IF hits = {} THEN "" ELSE granular_candidates[CHOOSE i \in hits : \A j \in hits : i <= j]

\* One row of base_df (lines 112-128), before dropna
base_row(r, g) ==
    LET picked == IF g # "" THEN r[g] ELSE r["RegionName"]
    IN [date          |-> to_datetime(r["Date"]),
        parent_region |-> r["RegionName"],
        region_name   |-> IF notna(picked) THEN picked ELSE r["RegionName"],
        average_price |-> r["AveragePrice"],
        index         |-> r["Index"]]

\* The same with "index" left out of the subset
hpi_complete_without_index(b) ==
    /\ notna(b.date) /\ notna(b.parent_region) /\ notna(b.region_name)
    /\ notna(b.average_price)

\* dropna(subset=[date, parent_region, region_name, average_price, index])
hpi_complete(b) ==
    /\ notna(b.date) /\ notna(b.parent_region) /\ notna(b.region_name)
    /\ notna(b.average_price) /\ notna(b.index)

\* base_df["year"] = base_df["date"].dt.year
with_year(b) ==
    [date |-> b.date, parent_region |-> b.parent_region, region_name |-> b.region_name,
     average_price |-> b.average_price, index |-> b.index, year |-> b.date.y]

clean_house_price_data(content) ==
    IF content = None THEN None
    ELSE IF content.t # "csv" THEN None
    ELSE IF ~(required_cols \subseteq content.columns) THEN None
    ELSE LET g    == granular_col(content.columns)
             base == [i \in 1..Len(content.rows) |-> base_row(content.rows[i], g)]
             kept == SelectSeq(base, hpi_complete)
         IN DF([i \in 1..Len(kept) |-> with_year(kept[i])])

---------------------------------------------------------------------------
(* Salary Normalizer: _select_salary_sheet, clean_salary_data *)

\* A workbook is [t |-> "xlsx", sheets |-> <<[name, grid], ...>>]; a grid is a
\* sequence of rows, a row a sequence of cells, an empty cell being NaN.
\* The sheets modelled have two columns, so that a header name occurring
\* twice is the case region_col = pay_col.

PREVIEW_NROWS == 200
OPERATING_YEAR == 2025
WEEKS_PER_YEAR == 52

\* str.strip().lower() on the names and header texts that occur
strip_lower(s) ==
    CASE s \in {"All", "all", " ALL "} -> "all"
      [] s \in {"Region", "region", " REGION "} -> "region"
      [] OTHER -> s

\* The texts that are digits only (str.isdigit, pd.to_numeric), with their value
digit_value == [s \in {"0", "800", "1000", "2025"} |->
                   CASE s = "0" -> 0 [] s = "800" -> 800 [] s = "1000" -> 1000 [] OTHER -> 2025]

row_blank(row) == \A j \in 1..Len(row) : isna(row[j])

\* ExcelFile.parse(name, header=None, nrows=n): the reader trims the trailing
\* empty rows and columns; a sheet with no data gives DataFrame(), a frame
\* with no rows and no columns. Rows keep their 0-based position as label.
parse_sheet(grid, nrows) ==
    LET seen == {i \in 1..Len(grid) : i <= nrows}
        used == {i \in seen : ~row_blank(grid[i])}
        last == IF used = {} THEN 0 ELSE CHOOSE i \in used : \A k \in used : k <= i
        cols == {j \in 1..(IF Len(grid) = 0 THEN 0 ELSE Len(grid[1])) :
                    \E i \in used : notna(grid[i][j])}
        width == IF cols = {} THEN 0 ELSE CHOOSE j \in cols : \A k \in cols : k <= j
    IN [width |-> width,
        rows  |-> [i \in 1..last |-> [idx |-> i - 1, cells |-> SubSeq(grid[i], 1, width)]]]

\* dropna(how="all")
dropna_all(frame) ==
    [width |-> frame.width, rows |-> SelectSeq(frame.rows, LAMBDA r : ~row_blank(r.cells))]

\* preview.dropna(how="all").shape[0]
non_empty(sheet) == Len(dropna_all(parse_sheet(sheet.grid, PREVIEW_NROWS)).rows)

\* Position (1-based) of the sheet _select_salary_sheet returns: the first
\* sheet named "all" (any case, any padding), else the first of the sheets
\* with the most non-blank rows
select_salary_sheet(sheets) ==
    LET named == {i \in 1..Len(sheets) : strip_lower(sheets[i].name) = "all"}
        dense == {i \in 1..Len(sheets) :
                     /\ \A k \in 1..Len(sheets) : non_empty(sheets[k]) <= non_empty(sheets[i])
                     /\ \A k \in 1..(i - 1) : non_empty(sheets[k]) < non_empty(sheets[i])}
    IN IF named # {} THEN CHOOSE i \in named : \A k \in named : i <= k
       ELSE CHOOSE i \in dense : TRUE

\* Series.astype(str) on a header cell
astype_str(c) == CASE c.t = "str" -> c.s [] c.t = "num" -> ToString(c.n) [] OTHER -> "nan"

\* pd.to_numeric(errors="coerce") on one cell
to_numeric(c) ==
    CASE c.t = "num" -> c
      [] c.t = "str" /\ c.s \in DOMAIN digit_value -> Num(digit_value[c.s])
      [] OTHER -> NaN

\* cleaned_df["region_name"].replace({"East": "East of England"})
region_mapping(c) == IF c = Str("East") THEN Str("East of England") ELSE c

\* lines 175-187: the label of the header row, or NaN when the sheet has no row
header_index(raw_sheet) ==
    LET hits == {i \in 1..Len(raw_sheet.rows) :
                    strip_lower(astype_str(raw_sheet.rows[i].cells[1])) = "region"}
    IN IF hits # {} THEN Num(raw_sheet.rows[CHOOSE i \in hits : \A k \in hits : i <= k].idx)
       ELSE IF raw_sheet.rows = << >> THEN NaN
       ELSE Num(raw_sheet.rows[1].idx)

\* lines 194-197: position of the first column named "region", 0 for None
region_col(columns) ==
    LET hits == {j \in 1..Len(columns) : strip_lower(columns[j]) = "region"}
    IN IF hits = {} THEN 0 ELSE CHOOSE j \in hits : \A k \in hits : j <= k

\* lines 202-207: position of the first all-digit column name, else the
\* second column, 0 for None
pay_col(columns) ==
    LET hits == {j \in 1..Len(columns) : columns[j] \in DOMAIN digit_value}
    IN IF hits # {} THEN CHOOSE j \in hits : \A k \in hits : j <= k
       ELSE IF Len(columns) > 1 THEN 2
       ELSE 0

\* lines 216-218: the rows kept, with the pay coerced
pay_row_kept(r) == notna(r.region_name) /\ notna(r.weekly_pay) /\ notna(to_numeric(r.weekly_pay))

\* The same without the annualisation: the weekly pay is kept as it is
salary_row_weekly(r) ==
    [year |-> OPERATING_YEAR,
     region_name |-> region_mapping(r.region_name),
     average_annual_salary |-> to_numeric(r.weekly_pay)]

\* lines 219-226
salary_row(r) ==
    [year |-> OPERATING_YEAR,
     region_name |-> region_mapping(r.region_name),
     average_annual_salary |-> Num(to_numeric(r.weekly_pay).n * WEEKS_PER_YEAR)]

\* lines 172-226, on the sheet chosen
clean_salary_sheet(grid) ==
    LET parsed == parse_sheet(grid, Len(grid))
        raw_sheet == dropna_all(parsed)
    IN IF parsed.width = 0 THEN Raised("IndexError")        \* raw_sheet.iloc[:, 0]
       ELSE LET h == header_index(raw_sheet)
            IN IF h = NaN THEN Raised("KeyError")           \* raw_sheet.loc[nan]
               ELSE
       LET header_row == [j \in 1..parsed.width |->
                             astype_str((CHOOSE r \in {raw_sheet.rows[i] : i \in 1..Len(raw_sheet.rows)} :
                                            r.idx = h.n).cells[j])]
           data_rows == SelectSeq(raw_sheet.rows, LAMBDA r : r.idx >= h.n + 1)
           rc == region_col(header_row)
           pcol == pay_col(header_row)
       IN IF rc = 0 THEN None
          ELSE IF pcol = 0 THEN None
          ELSE IF header_row[rc] = header_row[pcol] THEN Raised("KeyError")  \* no region_name column is left
          ELSE LET picked == [i \in 1..Len(data_rows) |->
                                 [region_name |-> data_rows[i].cells[rc],
                                  weekly_pay  |-> data_rows[i].cells[pcol]]]
                   kept == SelectSeq(picked, pay_row_kept)
               IN DF([i \in 1..Len(kept) |-> salary_row(kept[i])])

clean_salary_data(content) ==
    IF content = None THEN None
    ELSE IF content.t # "xlsx" THEN None
    ELSE IF content.sheets = << >> THEN None
    ELSE clean_salary_sheet(content.sheets[select_salary_sheet(content.sheets)].grid)

---------------------------------------------------------------------------
(* Reconciler: merge_and_transform_data *)

\* pandas builds a float column from scalars unless every one of them is
\* None: a None beside a number becomes NaN, a column of None stays None
infer_float(col) ==
    IF \A i \in 1..Len(col) : col[i] = None THEN col
    ELSE [i \in 1..Len(col) |-> IF col[i] = None THEN NaN ELSE col[i]]

with_salary(row, salary) ==
    [date |-> row.date, parent_region |-> row.parent_region, region_name |-> row.region_name,
     average_price |-> row.average_price, index |-> row.index, year |-> row.year,
     average_annual_salary |-> salary]

\* lines 237-238: the salary rows a price row joins with, in salary order
join_matches(row, salaries) ==
    SelectSeq(salaries, LAMBDA s : s.year = row.year /\ s.region_name = row.parent_region)

\* pd.merge(..., how="inner"): the price rows without a salary row are lost
RECURSIVE inner_merge(_, _)
inner_merge(prices, salaries) ==
    IF prices = << >> THEN << >>
    ELSE LET row == Head(prices)
             m == join_matches(row, salaries)
         IN [i \in 1..Len(m) |-> with_salary(row, m[i].average_annual_salary)]
            \o inner_merge(Tail(prices), salaries)

\* pd.merge(..., how="left"): the left order is kept; a price row gives one
\* row per matching salary row, or one row with NaN salary when none matches
RECURSIVE left_merge(_, _)
left_merge(prices, salaries) ==
    IF prices = << >> THEN << >>
    ELSE LET row == Head(prices)
             m == join_matches(row, salaries)
         IN (IF m = << >> THEN <<with_salary(row, NaN)>>
             ELSE [i \in 1..Len(m) |-> with_salary(row, m[i].average_annual_salary)])
            \o left_merge(Tail(prices), salaries)

\* lines 243-246 and the .get of line 249: the salary of the first salary row
\* with the key, None when no row has it
salary_lookup(salaries, year, region) ==
    LET m == SelectSeq(salaries, LAMBDA s : s.year = year /\ s.region_name = region)
    IN IF m = << >> THEN None ELSE m[1].average_annual_salary

\* lines 247-250: when any merged salary is missing, every row's salary is
\* looked up again
secondary_lookup(merged, salaries) ==
    IF \E i \in 1..Len(merged) : isna(merged[i].average_annual_salary)
    THEN LET col == infer_float([i \in 1..Len(merged) |->
                        salary_lookup(salaries, merged[i].year, merged[i].parent_region)])
         IN [i \in 1..Len(merged) |-> with_salary(merged[i], col[i])]
    ELSE merged

date_le(a, b) == a.y < b.y \/ (a.y = b.y /\ a.m <= b.m)

\* Order of sort_values(by=["region_name", "date"])
sort_le(a, b) ==
    \/ StrRank(a.region_name.s) < StrRank(b.region_name.s)
    \/ (a.region_name = b.region_name /\ date_le(a.date, b.date))

\* Stable insertion of row into the sorted sequence s, after its equals
RECURSIVE sort_insert(_, _)
sort_insert(row, s) ==
    IF s = << >> THEN <<row>>
    ELSE IF sort_le(Head(s), row) THEN <<Head(s)>> \o sort_insert(row, Tail(s))
    ELSE <<row>> \o s

RECURSIVE sort_values(_)
sort_values(rows) ==
    IF rows = << >> THEN << >>
    ELSE sort_insert(rows[Len(rows)], sort_values(SubSeq(rows, 1, Len(rows) - 1)))

\* lines 253-255: x.ffill().bfill() within the rows of the same parent_region
fill_salary(rows, i) ==
    LET same == {k \in 1..Len(rows) : rows[k].parent_region = rows[i].parent_region
                                       /\ notna(rows[k].average_annual_salary)}
        before == {k \in same : k <= i}
        after == {k \in same : k > i}
    IN IF before # {} THEN rows[CHOOSE k \in before : \A j \in before : j <= k].average_annual_salary
       ELSE IF after # {} THEN rows[CHOOSE k \in after : \A j \in after : k <= j].average_annual_salary
       ELSE rows[i].average_annual_salary

ffill_bfill(rows) == [i \in 1..Len(rows) |-> with_salary(rows[i], fill_salary(rows, i))]

\* line 259, float division of pandas: x/NaN = NaN, x/0 = inf, 0/0 = NaN
affordability_ratio(price, salary) ==
    IF isna(price) \/ isna(salary) THEN NaN
    ELSE IF salary.n # 0 THEN Quot(price.n, salary.n)
    ELSE IF price.n = 0 THEN NaN
    ELSE Inf

with_ratio(row) ==
    [date |-> row.date, parent_region |-> row.parent_region, region_name |-> row.region_name,
     average_price |-> row.average_price, index |-> row.index, year |-> row.year,
     average_annual_salary |-> row.average_annual_salary,
     affordability_ratio |-> affordability_ratio(row.average_price, row.average_annual_salary)]

merge_and_transform_data(prices_df, salaries_df) ==
    IF prices_df = None \/ salaries_df = None THEN None
    ELSE LET merged == left_merge(prices_df.rows, salaries_df.rows)
             looked == secondary_lookup(merged, salaries_df.rows)
             filled == ffill_bfill(sort_values(looked))
         IN DF([i \in 1..Len(filled) |-> with_ratio(filled[i])])

---------------------------------------------------------------------------
(* Row Validator: AffordabilityModel, validate_data *)

\* pydantic's float field (lax mode, allow_inf_nan left at its default):
\* numbers, NaN, inf and numeric text pass; None and other text do not
valid_float(v) ==
    \/ v.t \in {"num", "nan", "inf", "quot"}
    \/ (v.t = "str" /\ v.s \in DOMAIN digit_value)

\* float | None
valid_optional_float(v) == v = None \/ valid_float(v)

\* AffordabilityModel(**payload) does not raise ValidationError. The date
\* field takes a Timestamp at midnight, not one with a time of day
model_valid(row) ==
    /\ row.date.t = "date"
    /\ row.region_name.t = "str"
    /\ valid_float(row.average_price)
    /\ valid_float(row.index)
    /\ valid_optional_float(row.average_annual_salary)
    /\ valid_optional_float(row.affordability_ratio)

\* pydantic's conversion of an accepted float input
as_float(v) == IF v.t = "str" THEN Num(digit_value[v.s]) ELSE v

\* .model_dump(): the six fields of the model, the others are gone
model_dump(row) ==
    [date |-> row.date, region_name |-> row.region_name,
     average_price |-> as_float(row.average_price), index |-> as_float(row.index),
     average_annual_salary |-> IF row.average_annual_salary = None THEN None
                               ELSE as_float(row.average_annual_salary),
     affordability_ratio |-> IF row.affordability_ratio = None THEN None
                             ELSE as_float(row.affordability_ratio)]

\* The local error_count of validate_data
error_count(df) == Count(df.rows, LAMBDA r : ~model_valid(r))

\* What validate_data returns: the frame alone
validate_data(df) ==
    IF df = None THEN DF(<< >>)
    ELSE LET ok == SelectSeq(df.rows, model_valid)
             dumped == [i \in 1..Len(ok) |-> model_dump(ok[i])]
             salary == infer_float([i \in 1..Len(ok) |-> dumped[i].average_annual_salary])
             ratio == infer_float([i \in 1..Len(ok) |-> dumped[i].affordability_ratio])
         IN DF([i \in 1..Len(ok) |->
                   [dumped[i] EXCEPT !.average_annual_salary = salary[i],
                                     !.affordability_ratio = ratio[i]]])

\* What validate_data logs (lines 281-284)
validate_log(df) ==
    IF df = None THEN None
    ELSE IF error_count(df) # 0 THEN [t |-> "warning", invalid |-> error_count(df)]
    ELSE [t |-> "info"]

---------------------------------------------------------------------------
(* Inputs *)

MaxCsvRows == 2
MaxSheetRows == 3
MaxPriceRows == 2
MaxSalaryRows == 2
MaxBatch == 3

DateStr(y, m) == [t |-> "datestr", y |-> y, m |-> m]

\* Cells of the price CSV, by column
DateCells == {DateStr(2024, 1), DateStr(2025, 2), Str("bad-date"), NaN}
RegionNameCells == {Str("London"), NaN}
AveragePriceCells == {Num(100), NaN}
IndexCells == {Num(1), NaN}
OfficialNameCells == {Str("Camden"), NaN}

CsvRows(columns) ==
    IF "OfficialName" \in columns
    THEN [Date : DateCells, RegionName : RegionNameCells, AveragePrice : AveragePriceCells,
          Index : IndexCells, OfficialName : OfficialNameCells]
    ELSE IF "Index" \in columns
    THEN [Date : DateCells, RegionName : RegionNameCells, AveragePrice : AveragePriceCells,
          Index : IndexCells]
    ELSE [Date : DateCells, RegionName : RegionNameCells, AveragePrice : AveragePriceCells]

CsvColumnSets == {required_cols, required_cols \cup {"OfficialName"}, required_cols \ {"Index"}}

Csv(columns, rows) == [t |-> "csv", columns |-> columns, rows |-> rows]
Garbage == [t |-> "garbage"]

\* What the price fetch can hand to clean_house_price_data: nothing, bytes
\* that are no CSV, or a CSV of at most max rows
IsHpiContent(content, max) ==
    \/ content \in {None, Garbage}
    \/ \E c \in CsvColumnSets, n \in 0..max :
          \E rows \in [1..n -> CsvRows(c)] : content = Csv(c, rows)

\* Rows of a salary sheet: a label cell and a pay cell
SheetRows == {<<a, b>> : a \in {NaN, Str("Region"), Str("East")},
                         b \in {NaN, Str("2025"), Str("Region"), Num(800)}}

Xlsx(sheets) == [t |-> "xlsx", sheets |-> sheets]
Sheet(name, grid) == [name |-> name, grid |-> grid]

\* Workbooks of no, one or two sheets holding at most max rows in all
IsWorkbook(content, max) ==
    \/ content = Xlsx(<< >>)
    \/ \E name \in {"All", "Data"}, n \in 0..max :
          \E g \in [1..n -> SheetRows] : content = Xlsx(<<Sheet(name, g)>>)
    \/ \E names \in {<<" ALL ", "Data">>, <<"Data", "all">>, <<"Data", "Notes">>} :
          \E n1 \in 0..max : \E n2 \in 0..(max - n1) :
             \E g1 \in [1..n1 -> SheetRows], g2 \in [1..n2 -> SheetRows] :
                content = Xlsx(<<Sheet(names[1], g1), Sheet(names[2], g2)>>)

IsSalaryContent(content, max) == content \in {None, Garbage} \/ IsWorkbook(content, max)

\* Cleaned price rows: year is the year of date, as clean_house_price_data leaves them
PriceRow(d, parent, region, price) ==
    [date |-> d, parent_region |-> Str(parent), region_name |-> Str(region),
     average_price |-> Num(price), index |-> Num(1), year |-> d.y]

PriceRows ==
    {PriceRow(d, r[1], r[2], 100) :
        d \in {Date(2024, 1), Date(2025, 1), Date(2025, 2)},
        r \in {<<"London", "London">>, <<"North West", "Manchester">>}}

SalaryRows ==
    [year : {2024, 2025}, region_name : {Str("London"), Str("North West")},
     average_annual_salary : {Num(0), Num(50)}]

IsPriceFrame(df, max) == \E n \in 1..max : \E rows \in [1..n -> PriceRows] : df = DF(rows)
IsSalaryFrame(df, max) == \E n \in 1..max : \E rows \in [1..n -> SalaryRows] : df = DF(rows)

\* Rows handed to validate_data: merged rows, and rows whose average_price
\* is NaN (a null of a float column), None (a null of an object column) or text
BatchRows ==
    {[date |-> Date(2025, 1), parent_region |-> Str("London"), region_name |-> Str("London"),
      average_price |-> p, index |-> Num(1), year |-> 2025,
      average_annual_salary |-> s,
      affordability_ratio |-> IF p.t = "num" THEN affordability_ratio(p, s) ELSE NaN] :
        p \in {Num(100), Num(200), NaN, None, Str("n/a")}, s \in {Num(50), NaN}}

IsBatch(df, max) == \E n \in 0..max : \E rows \in [1..n -> BatchRows] : df = DF(rows)

---------------------------------------------------------------------------
(* Source Fetcher: fetch_data *)

HPI == "house price"
SALARY == "salary"
TaskNames == {HPI, SALARY}

Response(status, content) == [t |-> "response", status |-> status, content |-> content]
RequestError(e) == [t |-> "request_error", exc |-> e]

\* response.raise_for_status(): HTTPStatusError unless the status is 2xx
raise_for_status(status) == ~(200 <= status /\ status <= 299)

\* What fetch_data does with the outcome of session.get: httpx.RequestError
\* (timeouts, connection and DNS errors) is caught; HTTPStatusError, which
\* raise_for_status raises, is an httpx.HTTPError but no RequestError
fetch_data(outcome) ==
    IF outcome.t = "request_error" THEN None
    ELSE IF raise_for_status(outcome.status) THEN Raised("HTTPStatusError")
    ELSE outcome.content

\* The price CSV of tests/test_api.py (01/02/2025 is read month first; days
\* are not modelled)
FixtureCsv ==
    Csv(required_cols,
        <<[Date |-> DateStr(2025, 1), RegionName |-> Str("London"),
           AveragePrice |-> Num(500000), Index |-> [t |-> "num", n |-> 1205, d |-> 10]],
          [Date |-> DateStr(2025, 1), RegionName |-> Str("North West"),
           AveragePrice |-> Num(200000), Index |-> [t |-> "num", n |-> 1102, d |-> 10]]>>)

\* The workbook of tests/test_api.py: a title, blank rows, the header on row 5
FixtureXlsx ==
    Xlsx(<<Sheet("All",
        <<<<Str("Title of Document"), NaN>>, <<NaN, NaN>>, <<NaN, NaN>>, <<NaN, NaN>>, <<NaN, NaN>>,
          <<Str("Region"), Str("2025")>>,
          <<Str("London"), Num(1000)>>, <<Str("North West"), Num(800)>>>>)>>)

\* A CSV whose only row has no date, one whose dates carry a time of day, a
\* workbook whose only sheet is blank, one with a weekly pay of 0
UndatedCsv ==
    Csv(required_cols, <<[Date |-> Str("bad-date"), RegionName |-> Str("London"),
                          AveragePrice |-> Num(100), Index |-> Num(1)]>>)
TimedCsv ==
    Csv(required_cols, <<[Date |-> [t |-> "datetimestr", y |-> 2025, m |-> 1],
                          RegionName |-> Str("London"),
                          AveragePrice |-> Num(100), Index |-> Num(1)]>>)
BlankXlsx == Xlsx(<<Sheet("Sheet1", << >>)>>)
ZeroPayXlsx == Xlsx(<<Sheet("All", <<<<Str("Region"), Str("2025")>>, <<Str("London"), Num(0)>>>>)>>)

\* Outcomes of session.get for each source
Outcomes(name) ==
    {RequestError("ConnectTimeout"), RequestError("ConnectError")} \cup
    {Response(503, Garbage)} \cup
    {Response(200, c) : c \in IF name = HPI THEN {FixtureCsv, UndatedCsv, TimedCsv, Garbage}
                                ELSE {FixtureXlsx, ZeroPayXlsx, BlankXlsx, Garbage}}

---------------------------------------------------------------------------
(* Fallback datasets *)

FallbackPrice(m, parent, region, price, index10) ==
    [date |-> Date(2025, m), parent_region |-> Str(parent), region_name |-> Str(region),
     average_price |-> Num(price), index |-> [t |-> "num", n |-> index10, d |-> 10], year |-> 2025]

fallback_house_price_data ==
    DF(<<FallbackPrice(1, "London", "London", 525000, 1205),
         FallbackPrice(2, "London", "London", 527500, 1211),
         FallbackPrice(1, "North West", "Manchester", 210000, 1093),
         FallbackPrice(2, "North West", "Manchester", 212000, 1099)>>)

fallback_salary_data ==
    DF(<<[year |-> 2025, region_name |-> Str("London"), average_annual_salary |-> Num(52000)],
         [year |-> 2025, region_name |-> Str("North West"), average_annual_salary |-> Num(42000)]>>)

---------------------------------------------------------------------------
(* The table store and load_data_to_db *)

MaxRuns == 2

TABLE_NAME == "uk_hpi_plus_affordability"     \* data_pipeline.py
API_TABLE_NAME == "uk_hpi"                    \* api.py
Tables == {TABLE_NAME, API_TABLE_NAME}

\* A table of the name the API reads, left in the store by something else
LegacyTable ==
    DF(<<[date |-> Date(2024, 1), region_name |-> Str("London"),
          average_price |-> Num(100), index |-> Num(1)]>>)

\* load_data_to_db returns at once: df is None or df.empty or not db_url
load_skipped(df, url) == df = None \/ df.rows = << >> \/ ~url

---------------------------------------------------------------------------
(* Pipeline Orchestrator: main, with asyncio.gather over the two fetches *)

\* lines 304-310: without DATABASE_URL the run ends at once; else the two
\* coroutines are created and gather starts them
Start ==
    /\ pc = "START"
    /\ IF ~db_url
       THEN /\ pc' = "FAILED"
            /\ UNCHANGED tasks
       ELSE /\ pc' = "FETCHING"
            /\ tasks' = [n \in TaskNames |-> [st |-> "pending", result |-> None]]
    /\ UNCHANGED <<db_url, raw_hpi_content, raw_salary_content, normalized, cleaned_hpi_df,
                   cleaned_salary_df, merged_df, validated_df, logged, db, tx_ddl, sql,
                   prev_snapshot, runs, cache, response>>

\* One fetch_data coroutine finishes: it returns bytes or None, or raises
FetchCompletes(name) ==
    /\ pc = "FETCHING"
    /\ tasks[name].st = "pending"
    /\ \E outcome \in Outcomes(name) :
          LET r == fetch_data(outcome)
          IN tasks' = [tasks EXCEPT ![name] =
                          [st |-> IF r.t = "raised" THEN "raised" ELSE "done", result |-> r]]
    /\ UNCHANGED <<pc, db_url, raw_hpi_content, raw_salary_content, normalized, cleaned_hpi_df,
                   cleaned_salary_df, merged_df, validated_df, logged, db, tx_ddl, sql,
                   prev_snapshot, runs, cache, response>>

\* line 311, asyncio.gather without return_exceptions: both results once both
\* coroutines returned
GatherReturns ==
    /\ pc = "FETCHING"
    /\ \A n \in TaskNames : tasks[n].st = "done"
    /\ raw_hpi_content' = tasks[HPI].result
    /\ raw_salary_content' = tasks[SALARY].result
    /\ pc' = "NORMALIZING"
    /\ UNCHANGED <<db_url, tasks, normalized, cleaned_hpi_df, cleaned_salary_df, merged_df,
                   validated_df, logged, db, tx_ddl, sql, prev_snapshot, runs, cache, response>>

\* line 311: the first exception of a coroutine is raised in main at once;
\* main ends with it and asyncio.run cancels the coroutine still pending
GatherRaises ==
    /\ pc = "FETCHING"
    /\ \E n \in TaskNames : tasks[n].st = "raised"
    /\ tasks' = [n \in TaskNames |->
                    IF tasks[n].st = "pending" THEN [st |-> "cancelled", result |-> None]
                    ELSE tasks[n]]
    /\ pc' = "RAISED"
    /\ UNCHANGED <<db_url, raw_hpi_content, raw_salary_content, normalized, cleaned_hpi_df,
                   cleaned_salary_df, merged_df, validated_df, logged, db, tx_ddl, sql,
                   prev_snapshot, runs, cache, response>>

\* The same with the test for None alone: an empty frame is passed on
or_fallback_none_only(df, fallback) == IF df = None THEN fallback ELSE df

\* lines 316-319: a side that is None or empty is replaced by its fallback
or_fallback(df, fallback) == IF NoneOrEmpty(df) THEN fallback ELSE df

\* lines 313-319: both normalizers, then the fallbacks; an exception of a
\* normalizer ends main
Normalize ==
    /\ pc = "NORMALIZING"
    /\ LET h == clean_house_price_data(raw_hpi_content)
           s == clean_salary_data(raw_salary_content)
       IN IF s.t = "raised"
          THEN /\ pc' = "RAISED"
               /\ UNCHANGED <<normalized, cleaned_hpi_df, cleaned_salary_df>>
          ELSE /\ pc' = "RECONCILING"
               /\ normalized' = [hpi |-> h, salary |-> s]
               /\ cleaned_hpi_df' = or_fallback(h, fallback_house_price_data)
               /\ cleaned_salary_df' = or_fallback(s, fallback_salary_data)
    /\ UNCHANGED <<db_url, tasks, raw_hpi_content, raw_salary_content, merged_df, validated_df,
                   logged, db, tx_ddl, sql, prev_snapshot, runs, cache, response>>

\* line 321
Reconcile ==
    /\ pc = "RECONCILING"
    /\ merged_df' = merge_and_transform_data(cleaned_hpi_df, cleaned_salary_df)
    /\ pc' = "VALIDATING"
    /\ UNCHANGED <<db_url, tasks, raw_hpi_content, raw_salary_content, normalized,
                   cleaned_hpi_df, cleaned_salary_df, validated_df, logged, db, tx_ddl, sql,
                   prev_snapshot, runs, cache, response>>

\* line 322
Validate ==
    /\ pc = "VALIDATING"
    /\ validated_df' = validate_data(merged_df)
    /\ logged' = validate_log(merged_df)
    /\ pc' = "COMMITTING"
    /\ UNCHANGED <<db_url, tasks, raw_hpi_content, raw_salary_content, normalized,
                   cleaned_hpi_df, cleaned_salary_df, merged_df, db, tx_ddl, sql,
                   prev_snapshot, runs, cache, response>>

commit_unchanged == <<db_url, tasks, raw_hpi_content, raw_salary_content, normalized,
                      cleaned_hpi_df, cleaned_salary_df, merged_df, validated_df, tx_ddl,
                      prev_snapshot, runs, cache, response>>

\* lines 290-292: nothing to load
CommitSkipped ==
    /\ pc = "COMMITTING" /\ sql = "idle"
    /\ load_skipped(validated_df, db_url)
    /\ logged' = [t |-> "warning", skipped |-> TRUE]
    /\ pc' = "DONE"
    /\ UNCHANGED <<db, sql>>
    /\ UNCHANGED commit_unchanged

\* line 297 on a store with transactional DDL: DROP, CREATE and INSERT become
\* visible together
ReplaceInTransaction ==
    /\ pc = "COMMITTING" /\ sql = "idle"
    /\ ~load_skipped(validated_df, db_url)
    /\ tx_ddl
    /\ db' = [db EXCEPT ![TABLE_NAME] = validated_df]
    /\ pc' = "DONE"
    /\ UNCHANGED <<logged, sql>>
    /\ UNCHANGED commit_unchanged

\* line 297 on a store that commits each DDL statement by itself (SQLite
\* through the sqlite3 driver, the store of tests/test_api.py): the table is
\* dropped if it exists, created empty, then filled by one INSERT
DropTable ==
    /\ pc = "COMMITTING" /\ sql = "idle"
    /\ ~load_skipped(validated_df, db_url)
    /\ ~tx_ddl
    /\ db[TABLE_NAME] # Missing
    /\ db' = [db EXCEPT ![TABLE_NAME] = Missing]
    /\ sql' = "dropped"
    /\ UNCHANGED <<pc, logged>>
    /\ UNCHANGED commit_unchanged

CreateTable ==
    /\ pc = "COMMITTING"
    /\ ~load_skipped(validated_df, db_url)
    /\ ~tx_ddl
    /\ \/ sql = "dropped"
       \/ sql = "idle" /\ db[TABLE_NAME] = Missing
    /\ db' = [db EXCEPT ![TABLE_NAME] = DF(<< >>)]
    /\ sql' = "created"
    /\ UNCHANGED <<pc, logged>>
    /\ UNCHANGED commit_unchanged

InsertRows ==
    /\ pc = "COMMITTING" /\ sql = "created"
    /\ db' = [db EXCEPT ![TABLE_NAME] = validated_df]
    /\ sql' = "idle"
    /\ pc' = "DONE"
    /\ UNCHANGED logged
    /\ UNCHANGED commit_unchanged

\* lines 299-300: a statement fails (or the connection is lost); the
\* exception is logged and swallowed, what was committed stays
CommitFails ==
    /\ pc = "COMMITTING"
    /\ ~load_skipped(validated_df, db_url)
    /\ logged' = [t |-> "error", stage |-> sql]
    /\ sql' = "idle"
    /\ pc' = "DONE"
    /\ UNCHANGED db
    /\ UNCHANGED commit_unchanged

\* The pipeline is run again (api.py runs it at every start of the server)
Rerun ==
    /\ pc \in {"DONE", "FAILED", "RAISED"}
    /\ runs < MaxRuns
    /\ runs' = runs + 1
    /\ pc' = "START"
    /\ tasks' = [n \in TaskNames |-> [st |-> "idle", result |-> None]]
    /\ raw_hpi_content' = None /\ raw_salary_content' = None
    /\ normalized' = None
    /\ cleaned_hpi_df' = None /\ cleaned_salary_df' = None
    /\ merged_df' = None /\ validated_df' = None /\ logged' = None
    /\ prev_snapshot' = db[TABLE_NAME]
    /\ UNCHANGED <<db_url, db, tx_ddl, sql, cache, response>>

---------------------------------------------------------------------------
(* The serving layer: get_regions, get_data_for_region of api.py *)

QueryRegions == {"London", "Atlantis"}
CacheKeys == {"regions"} \cup {"data:London", "data:Atlantis"}
cache_key(region) == IF region = "London" THEN "data:London" ELSE "data:Atlantis"

\* The distinct region names of a table, ascending
RECURSIVE sorted_names(_)
sorted_names(S) ==
    IF S = {} THEN << >>
    ELSE LET m == CHOOSE x \in S : \A y \in S : StrRank(x) <= StrRank(y)
         IN <<m>> \o sorted_names(S \ {m})

\* SELECT DISTINCT region_name FROM uk_hpi ORDER BY region_name
select_regions(table) ==
    [regions |-> sorted_names({table.rows[i].region_name.s : i \in 1..Len(table.rows)})]

RECURSIVE order_by_date(_)
order_by_date(rows) ==
    IF rows = << >> THEN << >>
    ELSE LET rest == order_by_date(SubSeq(rows, 1, Len(rows) - 1))
             row == rows[Len(rows)]
             n == Cardinality({i \in 1..Len(rest) : date_le(rest[i].date, row.date)})
         IN SubSeq(rest, 1, n) \o <<row>> \o SubSeq(rest, n + 1, Len(rest))

\* STRFTIME('%Y-%m-%d', date) / TO_CHAR(date, 'YYYY-MM-DD')
date_format_sql(d) == [t |-> "isodate", y |-> d.y, m |-> d.m]

\* SELECT <date> as date, average_price, "index" FROM uk_hpi
\* WHERE region_name = :region ORDER BY date
select_region_data(table, region) ==
    LET hit == order_by_date(SelectSeq(table.rows, LAMBDA r : r.region_name = Str(region)))
    IN [region |-> region,
        data |-> [i \in 1..Len(hit) |->
                     [date |-> date_format_sql(hit[i].date),
                      average_price |-> hit[i].average_price,
                      index |-> hit[i].index]]]

\* The cached value wins; else the table of API_TABLE_NAME is queried (the
\* query raises when the store has no such table) and the answer is cached
GetRegions ==
    /\ IF cache.enabled /\ cache.entries["regions"] # Missing
       THEN /\ response' = cache.entries["regions"]
            /\ UNCHANGED cache
       ELSE IF ~db_url
       THEN /\ response' = [error |-> "Database connection failed"]
            /\ UNCHANGED cache
       ELSE IF db[API_TABLE_NAME] = Missing
       THEN /\ response' = Raised("OperationalError")
            /\ UNCHANGED cache
       ELSE /\ response' = select_regions(db[API_TABLE_NAME])
            /\ cache' = IF cache.enabled
                        THEN [cache EXCEPT !.entries["regions"] = select_regions(db[API_TABLE_NAME])]
                        ELSE cache
    /\ UNCHANGED <<pc, db_url, tasks, raw_hpi_content, raw_salary_content, normalized,
                   cleaned_hpi_df, cleaned_salary_df, merged_df, validated_df, logged, db,
                   tx_ddl, sql, prev_snapshot, runs>>

\* As get_regions, but on a cache hit line 158 reads the name json, which is
\* local to the function (line 190 imports it) and not yet bound
GetData(region) ==
    /\ IF cache.enabled /\ cache.entries[cache_key(region)] # Missing
       THEN /\ response' = Raised("UnboundLocalError")
            /\ UNCHANGED cache
       ELSE IF ~db_url
       THEN /\ response' = [error |-> "Database connection failed"]
            /\ UNCHANGED cache
       ELSE IF db[API_TABLE_NAME] = Missing
       THEN /\ response' = Raised("OperationalError")
            /\ UNCHANGED cache
       ELSE /\ response' = select_region_data(db[API_TABLE_NAME], region)
            /\ cache' = IF cache.enabled
                        THEN [cache EXCEPT !.entries[cache_key(region)] =
                                               select_region_data(db[API_TABLE_NAME], region)]
                        ELSE cache
    /\ UNCHANGED <<pc, db_url, tasks, raw_hpi_content, raw_salary_content, normalized,
                   cleaned_hpi_df, cleaned_salary_df, merged_df, validated_df, logged, db,
                   tx_ddl, sql, prev_snapshot, runs>>

\* A cached answer expires (ex=3600)
Expire(key) ==
    /\ cache.enabled /\ cache.entries[key] # Missing
    /\ cache' = [cache EXCEPT !.entries[key] = Missing]
    /\ UNCHANGED <<pc, db_url, tasks, raw_hpi_content, raw_salary_content, normalized,
                   cleaned_hpi_df, cleaned_salary_df, merged_df, validated_df, logged, db,
                   tx_ddl, sql, prev_snapshot, runs, response>>

---------------------------------------------------------------------------
(* The pipeline and the API beside it *)

Init ==
    /\ pc = "START"
    /\ db_url \in BOOLEAN
    /\ tasks = [n \in TaskNames |-> [st |-> "idle", result |-> None]]
    /\ raw_hpi_content = None /\ raw_salary_content = None
    /\ normalized = None
    /\ cleaned_hpi_df = None /\ cleaned_salary_df = None
    /\ merged_df = None /\ validated_df = None /\ logged = None
    /\ db \in {[n \in Tables |-> IF n = API_TABLE_NAME THEN legacy ELSE Missing] :
                  legacy \in {Missing, LegacyTable}}
    /\ tx_ddl \in BOOLEAN
    /\ sql = "idle"
    /\ prev_snapshot = Missing
    /\ runs = 1
    /\ cache \in {[enabled |-> e, entries |-> [k \in CacheKeys |-> Missing]] : e \in BOOLEAN}
    /\ response = None

Next ==
    \/ Start
    \/ \E name \in TaskNames : FetchCompletes(name)
    \/ GatherReturns
    \/ GatherRaises
    \/ Normalize
    \/ Reconcile
    \/ Validate
    \/ CommitSkipped
    \/ ReplaceInTransaction
    \/ DropTable
    \/ CreateTable
    \/ InsertRows
    \/ CommitFails
    \/ Rerun
    \/ GetRegions
    \/ \E region \in QueryRegions : GetData(region)
    \/ \E key \in CacheKeys : Expire(key)

Spec == Init /\ [][Next]_vars

---------------------------------------------------------------------------
(* Each function of the pipeline called by itself on every input of its bounds *)

\* Everything but pc and the frames a call reads or writes
AtRest ==
    /\ db_url = TRUE
    /\ tasks = [n \in TaskNames |-> [st |-> "idle", result |-> None]]
    /\ normalized = None
    /\ db = [n \in Tables |-> Missing] /\ tx_ddl = TRUE /\ sql = "idle"
    /\ prev_snapshot = Missing /\ runs = 1
    /\ cache = [enabled |-> FALSE, entries |-> [k \in CacheKeys |-> Missing]]
    /\ response = None

rest_vars == <<db_url, tasks, normalized, db, tx_ddl, sql, prev_snapshot, runs, cache, response>>

CallCleanHousePrice ==
    /\ pc = "clean_house_price_data"
    /\ cleaned_hpi_df' = clean_house_price_data(raw_hpi_content)
    /\ pc' = "returned"
    /\ UNCHANGED <<raw_hpi_content, raw_salary_content, cleaned_salary_df, merged_df,
                   validated_df, logged>>
    /\ UNCHANGED rest_vars

CallCleanSalary ==
    /\ pc = "clean_salary_data"
    /\ cleaned_salary_df' = clean_salary_data(raw_salary_content)
    /\ pc' = "returned"
    /\ UNCHANGED <<raw_hpi_content, raw_salary_content, cleaned_hpi_df, merged_df,
                   validated_df, logged>>
    /\ UNCHANGED rest_vars

CallMerge ==
    /\ pc = "merge_and_transform_data"
    /\ merged_df' = merge_and_transform_data(cleaned_hpi_df, cleaned_salary_df)
    /\ pc' = "validate_data"
    /\ UNCHANGED <<raw_hpi_content, raw_salary_content, cleaned_hpi_df, cleaned_salary_df,
                   validated_df, logged>>
    /\ UNCHANGED rest_vars

CallValidate ==
    /\ pc = "validate_data"
    /\ validated_df' = validate_data(merged_df)
    /\ logged' = validate_log(merged_df)
    /\ pc' = "returned"
    /\ UNCHANGED <<raw_hpi_content, raw_salary_content, cleaned_hpi_df, cleaned_salary_df,
                   merged_df>>
    /\ UNCHANGED rest_vars

InitPrice ==
    /\ pc = "clean_house_price_data"
    /\ IsHpiContent(raw_hpi_content, MaxCsvRows)
    /\ raw_salary_content = None
    /\ cleaned_hpi_df = None /\ cleaned_salary_df = None
    /\ merged_df = None /\ validated_df = None /\ logged = None
    /\ AtRest

SpecPrice == InitPrice /\ [][CallCleanHousePrice]_vars

InitSalary ==
    /\ pc = "clean_salary_data"
    /\ IsSalaryContent(raw_salary_content, MaxSheetRows)
    /\ raw_hpi_content = None
    /\ cleaned_hpi_df = None /\ cleaned_salary_df = None
    /\ merged_df = None /\ validated_df = None /\ logged = None
    /\ AtRest

SpecSalary == InitSalary /\ [][CallCleanSalary]_vars

InitMerge ==
    /\ pc = "merge_and_transform_data"
    /\ raw_hpi_content = None /\ raw_salary_content = None
    /\ IsPriceFrame(cleaned_hpi_df, MaxPriceRows)
    /\ IsSalaryFrame(cleaned_salary_df, MaxSalaryRows)
    /\ merged_df = None /\ validated_df = None /\ logged = None
    /\ AtRest

NextMerge == CallMerge \/ CallValidate

SpecMerge == InitMerge /\ [][NextMerge]_vars

InitValidate ==
    /\ pc = "validate_data"
    /\ raw_hpi_content = None /\ raw_salary_content = None
    /\ cleaned_hpi_df = None /\ cleaned_salary_df = None
    /\ IsBatch(merged_df, MaxBatch)
    /\ validated_df = None /\ logged = None
    /\ AtRest

SpecValidate == InitValidate /\ [][CallValidate]_vars

---------------------------------------------------------------------------
(* Properties *)

DestinationTable == db[TABLE_NAME]

\* C1: fetch_data never raises to its caller: whatever the outcome of the
\* GET, the coroutine returns (bytes or None).
C1_FetchNeverRaises == \A n \in TaskNames : tasks[n].st # "raised"

\* C2: FAILED is entered only from START and only without DATABASE_URL, and
\* a run that left START moves through FETCHING, NORMALIZING, RECONCILING,
\* VALIDATING, COMMITTING to DONE and to nothing else.
C2_StagesInOrder ==
    [][/\ (pc' = "FAILED" /\ pc # "FAILED") => (pc = "START" /\ ~db_url)
       /\ pc = "START" => pc' \in {"START", "FAILED", "FETCHING"}
       /\ pc = "FETCHING" => pc' \in {"FETCHING", "NORMALIZING"}
       /\ pc = "NORMALIZING" => pc' \in {"NORMALIZING", "RECONCILING"}
       /\ pc = "RECONCILING" => pc' \in {"RECONCILING", "VALIDATING"}
       /\ pc = "VALIDATING" => pc' \in {"VALIDATING", "COMMITTING"}
       /\ pc = "COMMITTING" => pc' \in {"COMMITTING", "DONE"}]_vars

\* C3: a run started with DATABASE_URL set has, when main is over, replaced
\* the destination table by the non-empty row set it validated.
C3_RunCommitsRows ==
    (db_url /\ pc \in {"DONE", "RAISED"}) =>
        /\ IsDF(validated_df) /\ validated_df.rows # << >>
        /\ DestinationTable = validated_df

\* C4: once a snapshot has been committed, the destination table a reader
\* sees at any moment of a later run is that snapshot or the rows the run
\* commits, never a missing table, an empty one or a mix.
C4_ReaderSeesWholeSnapshot ==
    (IsDF(prev_snapshot) /\ prev_snapshot.rows # << >>) =>
        \/ DestinationTable = prev_snapshot
        \/ pc \in {"COMMITTING", "DONE"} /\ DestinationTable = validated_df

\* affordability_ratio is average_price / average_annual_salary when the
\* salary is present and not 0, and absent otherwise
RatioRule(r) ==
    IF notna(r.average_annual_salary) /\ r.average_annual_salary.n # 0
    THEN r.affordability_ratio = Quot(r.average_price.n, r.average_annual_salary.n)
    ELSE isna(r.affordability_ratio)

\* C5: every row merge_and_transform_data produces, and every such row after
\* validate_data, has the ratio price / salary when the salary is present and
\* not 0 and no ratio when the salary is absent or 0.
C5_RatioOrAbsent ==
    /\ pc \in {"validate_data", "returned"} =>
          \A i \in 1..Len(merged_df.rows) : RatioRule(merged_df.rows[i])
    /\ pc = "returned" =>
          \A i \in 1..Len(validated_df.rows) : RatioRule(validated_df.rows[i])

\* A null or invalid average_price: missing, or text that is no number
BadPrice(r) == isna(r.average_price) \/ r.average_price.t = "str"

SixFields(r) ==
    [date |-> r.date, region_name |-> r.region_name, average_price |-> r.average_price,
     index |-> r.index, average_annual_salary |-> r.average_annual_salary,
     affordability_ratio |-> r.affordability_ratio]

\* C6: of a batch of N rows of which K have a null or invalid average_price,
\* validate_data returns the N-K others, in order and unchanged, and the
\* count it reports is K.
C6_ValidatePartitions ==
    pc = "returned" =>
        LET good == SelectSeq(merged_df.rows, LAMBDA r : ~BadPrice(r))
            K == Count(merged_df.rows, BadPrice)
        IN /\ Len(validated_df.rows) = Len(merged_df.rows) - K
           /\ validated_df.rows = [i \in 1..Len(good) |-> SixFields(good[i])]
           /\ (K > 0 => logged = [t |-> "warning", invalid |-> K])

\* C7: clean_salary_data returns a frame or None for every content, it does
\* not raise.
C7_CleanSalaryNeverRaises ==
    pc = "returned" => cleaned_salary_df.t \in {"df", "none"}

PriceFields(r) ==
    [date |-> r.date, parent_region |-> r.parent_region, region_name |-> r.region_name,
     average_price |-> r.average_price, index |-> r.index, year |-> r.year]

SalaryKeysUnique(rows) ==
    \A i, j \in 1..Len(rows) :
        (rows[i].year = rows[j].year /\ rows[i].region_name = rows[j].region_name) => i = j

\* C8: with salary rows unique per (year, region_name), the merged frame
\* holds every price row exactly once; a row whose (year, parent_region) is
\* the key of a salary row carries that salary; a row whose parent_region is
\* the region_name of no salary row has no salary and no ratio.
C8_LeftJoinOnParentRegion ==
    (pc \in {"validate_data", "returned"} /\ SalaryKeysUnique(cleaned_salary_df.rows)) =>
        LET in == cleaned_hpi_df.rows
            sal == cleaned_salary_df.rows
            out == merged_df.rows
        IN /\ Len(out) = Len(in)
           /\ \A k \in 1..Len(in) :
                 Count(out, LAMBDA o : PriceFields(o) = in[k]) = Count(in, LAMBDA r : r = in[k])
           /\ \A i \in 1..Len(out) : \A j \in 1..Len(sal) :
                 (sal[j].year = out[i].year /\ sal[j].region_name = out[i].parent_region)
                    => out[i].average_annual_salary = sal[j].average_annual_salary
           /\ \A i \in 1..Len(out) :
                 (\A j \in 1..Len(sal) : sal[j].region_name # out[i].parent_region)
                    => isna(out[i].average_annual_salary) /\ isna(out[i].affordability_ratio)

\* A granular row got its parent's salary beside a row whose parent has none
C8_Witness ==
    /\ pc = "returned" /\ SalaryKeysUnique(cleaned_salary_df.rows)
    /\ \E i, k \in 1..Len(merged_df.rows) :
          /\ merged_df.rows[i].region_name = Str("Manchester")
          /\ merged_df.rows[i].parent_region = Str("North West")
          /\ merged_df.rows[i].average_annual_salary = Num(50)
          /\ merged_df.rows[k].parent_region = Str("London")
          /\ isna(merged_df.rows[k].average_annual_salary)
          /\ \A j \in 1..Len(cleaned_salary_df.rows) :
                cleaned_salary_df.rows[j].region_name # Str("London")

Committed == pc = "DONE" /\ IsDF(validated_df) /\ validated_df.rows # << >>
                         /\ DestinationTable = validated_df
CacheEmpty == \A k \in CacheKeys : cache.entries[k] = Missing

\* The rows of a region as /data/{region} is to return them
CommittedData(region) ==
    LET hit == order_by_date(SelectSeq(validated_df.rows, LAMBDA r : r.region_name = Str(region)))
    IN [i \in 1..Len(hit) |->
           [date |-> date_format_sql(hit[i].date), average_price |-> hit[i].average_price,
            average_annual_salary |-> hit[i].average_annual_salary,
            affordability_ratio |-> hit[i].affordability_ratio]]

\* C9: after a run has committed, with an empty cache, /regions answers with
\* the distinct region names of the committed rows and /data/{region} with
\* the committed rows of the region by date, each with price, salary and
\* ratio (an empty list for a region without rows).
C9_ApiServesCommittedRows ==
    [][(Committed /\ CacheEmpty) =>
          /\ GetRegions => response' = select_regions(validated_df)
          /\ \A region \in QueryRegions :
                GetData(region) =>
                    /\ response'.t # "raised"
                    /\ response'.region = region
                    /\ Len(response'.data) = Len(CommittedData(region))
                    /\ \A i \in 1..Len(response'.data) :
                          /\ response'.data[i].date = CommittedData(region)[i].date
                          /\ response'.data[i].average_price = CommittedData(region)[i].average_price
                          /\ "average_annual_salary" \in DOMAIN response'.data[i]
                          /\ "affordability_ratio" \in DOMAIN response'.data[i]]_vars

\* A CSV row that is to survive: its date parses and nothing is missing
Survives(r) ==
    /\ r["Date"].t = "datestr"
    /\ r["RegionName"] # NaN /\ r["AveragePrice"] # NaN /\ r["Index"] # NaN

\* C10: on a CSV with the required columns clean_house_price_data returns,
\* in order, exactly the rows whose date parses and that miss nothing, each
\* with year the year of its date; a row with a bad or missing date changes
\* nothing about the others.
C10_CleanHpiKeepsCompleteRows ==
    (pc = "returned" /\ raw_hpi_content.t = "csv" /\ required_cols \subseteq raw_hpi_content.columns) =>
        LET in == raw_hpi_content.rows
            out == cleaned_hpi_df.rows
            kept == SelectSeq(in, Survives)
        IN /\ IsDF(cleaned_hpi_df)
           /\ Len(out) <= Len(in)
           /\ Len(out) = Len(kept)
           /\ \A k \in 1..Len(out) :
                 /\ out[k].date = Date(kept[k]["Date"].y, kept[k]["Date"].m)
                 /\ out[k].year = kept[k]["Date"].y
                 /\ out[k].parent_region = kept[k]["RegionName"]
                 /\ out[k].average_price = kept[k]["AveragePrice"]
                 /\ out[k].index = kept[k]["Index"]
                 /\ out[k].region_name \in
                       {kept[k]["RegionName"]} \cup
                       {kept[k][c] : c \in DOMAIN kept[k] \ required_cols}
                 /\ notna(out[k].region_name)

\* A row with unparseable text as date was dropped and a row after it kept
C10_Witness ==
    /\ pc = "returned" /\ raw_hpi_content.t = "csv"
    /\ required_cols \subseteq raw_hpi_content.columns
    /\ Len(raw_hpi_content.rows) = 2
    /\ raw_hpi_content.rows[1]["Date"] = Str("bad-date")
    /\ Len(cleaned_hpi_df.rows) = 1
    /\ cleaned_hpi_df.rows[1].year = 2025

\* The sheet clean_salary_data works on
SelectedGrid == raw_salary_content.sheets[select_salary_sheet(raw_salary_content.sheets)].grid

\* Position of the header row: the first row whose label cell reads "Region"
IsHeader(row) == row[1] \in {Str("Region"), Str("region"), Str(" REGION ")}
HeaderAt(grid) ==
    IF \E i \in 1..Len(grid) : IsHeader(grid[i])
    THEN CHOOSE i \in 1..Len(grid) : IsHeader(grid[i]) /\ \A k \in 1..(i - 1) : ~IsHeader(grid[k])
    ELSE 0

\* Header, region column and pay column are located: the header row starts
\* with "Region", the sheet has a second column (a cell of it is filled) and
\* the header does not name it "Region" too
Located(grid) ==
    /\ HeaderAt(grid) > 0
    /\ \E i \in 1..Len(grid) : grid[i][2] # NaN
    /\ ~IsHeader(<<grid[HeaderAt(grid)][2]>>)

\* The weekly pay a cell stands for, -1 when it is no number
WeeklyPay(c) ==
    CASE c.t = "num" -> c.n
      [] c.t = "str" /\ c.s \in DOMAIN digit_value -> digit_value[c.s]
      [] OTHER -> -1

\* The salary rows expected of the data rows of a sheet
ExpectedSalaryRows(grid) ==
    LET data == SubSeq(grid, HeaderAt(grid) + 1, Len(grid))
        good == SelectSeq(data, LAMBDA row : row[1] # NaN /\ WeeklyPay(row[2]) >= 0)
    IN [i \in 1..Len(good) |->
           [year |-> 2025,
            region_name |-> IF good[i][1] = Str("East") THEN Str("East of England") ELSE good[i][1],
            average_annual_salary |-> Num(52 * WeeklyPay(good[i][2]))]]

Normalized == pc \in {"RECONCILING", "VALIDATING", "COMMITTING", "DONE"}

NonEmptyFrame(df) == IsDF(df) /\ df.rows # << >>

\* C12: the frames handed to merge_and_transform_data are both non-empty; a
\* side whose normalizer returned None or no row is its fallback dataset, a
\* side whose normalizer returned rows is those rows, whatever the other
\* side did.
C12_FallbackPerSide ==
    Normalized =>
        /\ NonEmptyFrame(cleaned_hpi_df) /\ NonEmptyFrame(cleaned_salary_df)
        /\ cleaned_hpi_df = IF NonEmptyFrame(normalized.hpi) THEN normalized.hpi
                             ELSE fallback_house_price_data
        /\ cleaned_salary_df = IF NonEmptyFrame(normalized.salary) THEN normalized.salary
                                ELSE fallback_salary_data
        /\ Len(fallback_house_price_data.rows) = 4 /\ Len(fallback_salary_data.rows) = 2

\* The price normalizer returned an empty frame and the side got its
\* fallback, while the live salary rows were passed on
C12_Witness ==
    /\ pc = "RECONCILING"
    /\ normalized.hpi = DF(<< >>)
    /\ cleaned_hpi_df = fallback_house_price_data
    /\ NonEmptyFrame(normalized.salary)
    /\ cleaned_salary_df = normalized.salary
    /\ cleaned_salary_df # fallback_salary_data

\* C13: main goes past the joint await only with both fetches completed,
\* and each normalizer is handed what its own fetch returned: a fetch that
\* failed, in whatever way, neither stops nor discards the other.
C13_FetchesIndependent ==
    pc \notin {"START", "FETCHING", "FAILED"} =>
        /\ \A n \in TaskNames : tasks[n].st = "done"
        /\ raw_hpi_content = tasks[HPI].result
        /\ raw_salary_content = tasks[SALARY].result

\* Two salary rows have the same (year, region_name) and different salaries
SalaryKeyTwice(rows) ==
    \E i, j \in 1..Len(rows) :
        /\ i < j
        /\ rows[i].year = rows[j].year /\ rows[i].region_name = rows[j].region_name
        /\ rows[i].average_annual_salary # rows[j].average_annual_salary

\* The salary of the first salary row with the key
FirstSalary(rows, year, region) ==
    rows[CHOOSE i \in 1..Len(rows) :
            /\ rows[i].year = year /\ rows[i].region_name = region
            /\ \A k \in 1..(i - 1) : ~(rows[k].year = year /\ rows[k].region_name = region)
        ].average_annual_salary

\* C14: with a salary key occurring twice with different salaries, the merged
\* frame still holds every price row exactly once, and a price row whose
\* (year, parent_region) is a salary key carries the salary of the first
\* salary row with that key.
C14_FirstSalaryWins ==
    (pc \in {"validate_data", "returned"} /\ SalaryKeyTwice(cleaned_salary_df.rows)) =>
        LET in == cleaned_hpi_df.rows
            sal == cleaned_salary_df.rows
            out == merged_df.rows
        IN /\ Len(out) = Len(in)
           /\ \A k \in 1..Len(in) :
                 Count(out, LAMBDA o : PriceFields(o) = in[k]) = Count(in, LAMBDA r : r = in[k])
           /\ \A i \in 1..Len(out) :
                 (\E j \in 1..Len(sal) : sal[j].year = out[i].year
                                           /\ sal[j].region_name = out[i].parent_region)
                    => out[i].average_annual_salary = FirstSalary(sal, out[i].year, out[i].parent_region)

\* C15: with salary rows unique per (year, region_name), the merged rows of
\* one parent_region and one year all carry the same salary, and a salary
\* that is present is the one recorded for the row's own year and
\* parent_region: the fill takes nothing from another year or region.
C15_FillStaysInYearAndRegion ==
    (pc \in {"validate_data", "returned"} /\ SalaryKeysUnique(cleaned_salary_df.rows)) =>
        LET sal == cleaned_salary_df.rows
            out == merged_df.rows
        IN /\ \A i, k \in 1..Len(out) :
                 (out[i].parent_region = out[k].parent_region /\ out[i].year = out[k].year)
                    => out[i].average_annual_salary = out[k].average_annual_salary
           /\ \A i \in 1..Len(out) :
                 notna(out[i].average_annual_salary) =>
                    \E j \in 1..Len(sal) :
                        /\ sal[j].year = out[i].year
                        /\ sal[j].region_name = out[i].parent_region
                        /\ sal[j].average_annual_salary = out[i].average_annual_salary

===========================================================================
